---- MODULE Spec2Model ----
(***************************************************************************)
(* POMCTS wormhole-rolling planner (kriops/wormhole-calculator).           *)
(*                                                                         *)
(* Numbers.  Masses are integers counted in units of 1/18 M (MassUnit), so *)
(* that the catalog masses (1.5 M included) and massUsed / 0.9 are exact.  *)
(* Scores (wins, strategyScore, avgSteps, pct, UCB1) are fixed-point       *)
(* integers with Scale units per 1.0.  A JavaScript value that can be      *)
(* undefined or NaN (the successes counter) is a record [t |-> "undefined"]*)
(* / [t |-> "NaN"] / [t |-> "num", v |-> n].                               *)
(***************************************************************************)
EXTENDS Integers, Sequences, FiniteSets, TLC

VARIABLES
    cfg,              \* [startMin, startMax, initialMassUsed]: arguments of runPOMCTS
    numIterations,    \* argument of runPOMCTS
    nodes,            \* the tree: sequence of nodes in creation order, nodes[1] is the root
    i,                \* loop counter of runPOMCTS
    pc,               \* position inside runPOMCTS
    trueMass,         \* locals of one iteration
    currentMassUsed,
    remaining,
    path,             \* sequence of node ids
    node,             \* id of the current node
    rolledOut,
    needsExpansion,
    trips,
    simTotalBelief,
    simMassUsed,
    call              \* last direct call of an exported pure function

vars == << cfg, numIterations, nodes, i, pc, trueMass, currentMassUsed, remaining,
           path, node, rolledOut, needsExpansion, trips, simTotalBelief,
           simMassUsed, call >>

iterVars == << trueMass, currentMassUsed, remaining, path, node, rolledOut,
               needsExpansion, trips, simTotalBelief, simMassUsed >>

----------------------------------------------------------------------------
(* Bounds of the model *)

MaxIter == 4          \* largest numIterations explored
SampleDen == 4        \* Math.random() ranges over k / SampleDen, k in 0 .. SampleDen - 1

(* Units *)
MassUnit == 2 * 9     \* units per 1 M
Scale == 10 ^ 4       \* fixed-point units per 1.0

M(x) == x * MassUnit

----------------------------------------------------------------------------
(* CONFIG *)

bsHot == M(300)
bsCold == M(200)
hicHot == M(134)
hicCold == M(30)
hicEnt == M(3) \div 2          \* 1.5 M
shrinkThreshold == 50          \* percent
critThreshold == 10            \* percent
maxDepth == 20
maxReasonableTrips == 8
tripDecay == 95                \* percent
ucbConstant == 1414            \* thousandths (default C of ucb1ForAction)

(* The ACTIONS record (ACTIONS is a reserved word), in the insertion order that Object.entries / Object.values use *)
ActionKeys == << "BS_HOT", "BS_COLD", "BS_COLD_HOT", "HIC_HOT",
                 "HIC_COLD", "HIC_COLD_HOT", "HIC_ENT", "HIC_ENT_HOT" >>

ACTIONS_ ==
    [ BS_HOT       |-> [out |-> bsHot,   back |-> bsHot],
      BS_COLD      |-> [out |-> bsCold,  back |-> bsCold],
      BS_COLD_HOT  |-> [out |-> bsCold,  back |-> bsHot],
      HIC_HOT      |-> [out |-> hicHot,  back |-> hicHot],
      HIC_COLD     |-> [out |-> hicCold, back |-> hicCold],
      HIC_COLD_HOT |-> [out |-> hicCold, back |-> hicHot],
      HIC_ENT      |-> [out |-> hicEnt,  back |-> hicEnt],
      HIC_ENT_HOT  |-> [out |-> hicEnt,  back |-> hicHot] ]

Observations == {"fresh", "shrink", "crit", "collapsed"}

----------------------------------------------------------------------------
(* JavaScript numbers that may be undefined or NaN *)

JsUndefined == [t |-> "undefined"]
JsNaN == [t |-> "NaN"]
JsNum(n) == [t |-> "num", v |-> n]
IsNum(x) == x.t = "num"

\* ToNumber(undefined) = NaN
ToNumber(x) == IF IsNum(x) THEN x ELSE JsNaN

\* a + b
JsAdd(a, b) ==
    IF IsNum(ToNumber(a)) /\ IsNum(ToNumber(b)) THEN JsNum(a.v + b.v) ELSE JsNaN

\* a <= b, a > b: false as soon as one side is NaN
JsLe(a, b) == IsNum(ToNumber(a)) /\ IsNum(ToNumber(b)) /\ a.v <= b.v
JsGt(a, b) == IsNum(ToNumber(a)) /\ IsNum(ToNumber(b)) /\ a.v > b.v

Max(a, b) == IF a >= b THEN a ELSE b
Min(a, b) == IF a <= b THEN a ELSE b

----------------------------------------------------------------------------
(* observation.ts *)

\* remaining / trueMass <= pct / 100, as IEEE division decides it:
\* a negative divisor flips the comparison, x / 0 is +-Infinity or NaN.
PctAtMost(rem, total, pct) ==
    IF total > 0 THEN rem * 100 <= pct * total
    ELSE IF total < 0 THEN rem * 100 >= pct * total
    ELSE rem < 0

\* Faulty variant of computeObservation: the thresholds are exclusive
computeObservationStrict(tm, massUsed) ==
    LET rem == tm - massUsed IN
    IF rem <= 0 THEN "collapsed"
    ELSE IF PctAtMost(rem, tm, critThreshold) /\ rem * 100 # critThreshold * tm THEN "crit"
    ELSE IF PctAtMost(rem, tm, shrinkThreshold) /\ rem * 100 # shrinkThreshold * tm THEN "shrink"
    ELSE "fresh"

\* Faulty variant of computeObservation: the percentage is that of the mass used
computeObservationOfUsed(tm, massUsed) ==
    LET rem == tm - massUsed IN
    IF rem <= 0 THEN "collapsed"
    ELSE IF PctAtMost(massUsed, tm, critThreshold) THEN "crit"
    ELSE IF PctAtMost(massUsed, tm, shrinkThreshold) THEN "shrink"
    ELSE "fresh"

computeObservation(tm, massUsed) ==
    LET rem == tm - massUsed IN
    IF rem <= 0 THEN "collapsed"
    ELSE IF PctAtMost(rem, tm, critThreshold) THEN "crit"
    ELSE IF PctAtMost(rem, tm, shrinkThreshold) THEN "shrink"
    ELSE "fresh"

\* massUsed / 0.9 (exact when massUsed is a multiple of 9 units)
Div09(massUsed) == (massUsed * 10) \div 9

\* Faulty variant of updateTotalBelief: the fresh bound has no + 1
updateTotalBeliefNoOffset(b, massUsed, observation) ==
    IF observation = "fresh" THEN
        [min |-> Max(b.min, 2 * massUsed), max |-> b.max]
    ELSE IF observation = "shrink" THEN
        [min |-> Max(b.min, Div09(massUsed) + M(1)), max |-> Min(b.max, 2 * massUsed)]
    ELSE IF observation = "crit" THEN
        [min |-> b.min, max |-> Min(b.max, Div09(massUsed))]
    ELSE [min |-> b.min, max |-> b.max]

\* Faulty variant of updateTotalBelief: the + 1 is added after the maximum
updateTotalBeliefOffsetLast(b, massUsed, observation) ==
    IF observation = "fresh" THEN
        [min |-> Max(b.min, 2 * massUsed) + M(1), max |-> b.max]
    ELSE IF observation = "shrink" THEN
        [min |-> Max(b.min, Div09(massUsed)) + M(1), max |-> Min(b.max, 2 * massUsed)]
    ELSE IF observation = "crit" THEN
        [min |-> b.min, max |-> Min(b.max, Div09(massUsed))]
    ELSE [min |-> b.min, max |-> b.max]

\* Faulty variant of updateTotalBelief: the new bounds overwrite the old ones
updateTotalBeliefOverwrite(b, massUsed, observation) ==
    IF observation = "fresh" THEN
        [min |-> 2 * massUsed + M(1), max |-> b.max]
    ELSE IF observation = "shrink" THEN
        [min |-> Div09(massUsed) + M(1), max |-> 2 * massUsed]
    ELSE IF observation = "crit" THEN
        [min |-> b.min, max |-> Div09(massUsed)]
    ELSE [min |-> b.min, max |-> b.max]

updateTotalBelief(b, massUsed, observation) ==
    IF observation = "fresh" THEN
        [min |-> Max(b.min, 2 * massUsed + M(1)), max |-> b.max]
    ELSE IF observation = "shrink" THEN
        [min |-> Max(b.min, Div09(massUsed) + M(1)), max |-> Min(b.max, 2 * massUsed)]
    ELSE IF observation = "crit" THEN
        [min |-> b.min, max |-> Min(b.max, Div09(massUsed))]
    ELSE [min |-> b.min, max |-> b.max]

----------------------------------------------------------------------------
(* node.ts *)

\* new POMCTSNode(...): the constructor sets visits, wins, depth and
\* terminalTrips; it assigns no successes field.
NewNode(totalBelief, massUsed, parent, key, obs, depth) ==
    [ totalBelief |-> [min |-> totalBelief.min, max |-> totalBelief.max],
      massUsed |-> massUsed,
      parent |-> parent,
      incomingActionKey |-> key,
      incomingObservation |-> obs,
      children |-> << >>,
      visits |-> 0,
      wins |-> 0,
      successes |-> JsUndefined,
      depth |-> depth,
      terminalTrips |-> << >> ]

getRemainingBelief(n) ==
    [ min |-> Max(0, n.totalBelief.min - n.massUsed),
      max |-> Max(0, n.totalBelief.max - n.massUsed) ]

isTerminal(n) == getRemainingBelief(n).max <= 0

\* tripMass >= remaining.max / CONFIG.maxReasonableTrips
IsEfficient(act, rem) == (act.out + act.back) * maxReasonableTrips >= rem.max

\* Faulty variant of hasEfficientSafeAction: no efficient safe action is ever found
hasEfficientSafeActionNever(rem) == rem.max < 0

hasEfficientSafeAction(rem) ==
    \E k \in 1..Len(ActionKeys) :
        LET act == ACTIONS_[ActionKeys[k]] IN
        IsEfficient(act, rem) /\ act.out < rem.min /\ rem.max > act.out

\* Faulty variant of KeepAction: only the outbound test
KeepActionPermissive(key, rem) == ~(rem.max <= ACTIONS_[key].out)

KeepAction(key, rem) ==
    LET act == ACTIONS_[key] IN
    IF rem.max <= act.out THEN FALSE
    ELSE IF IsEfficient(act, rem) THEN TRUE
    ELSE IF act.out < rem.min /\ ~hasEfficientSafeAction(rem) THEN TRUE
    ELSE FALSE

\* sequence of action keys, in catalog order
getValidActions(n) ==
    LET rem == getRemainingBelief(n) IN
    SelectSeq(ActionKeys, LAMBDA key : KeepAction(key, rem))

hasChild(n, key, obs) ==
    \E c \in 1..Len(n.children) : n.children[c].key = key /\ n.children[c].obs = obs

\* id of the child, 0 for null
getChild(n, key, obs) ==
    IF hasChild(n, key, obs)
    THEN n.children[CHOOSE c \in 1..Len(n.children) :
                        n.children[c].key = key /\ n.children[c].obs = obs].id
    ELSE 0

\* Faulty variant of setChild: the child is not stored
setChildDropped(n, key, obs, id) ==
    IF hasChild(n, key, obs) THEN n ELSE [n EXCEPT !.children = @]

\* Faulty variant of setChild: the new child replaces the children stored before
setChildAlone(n, key, obs, id) ==
    [n EXCEPT !.children = << [key |-> key, obs |-> obs, id |-> id] >>]

\* children[actionKey][observation] = child; an existing slot is overwritten
setChild(n, key, obs, id) ==
    IF hasChild(n, key, obs)
    THEN [n EXCEPT !.children =
            [c \in 1..Len(n.children) |->
                IF n.children[c].key = key /\ n.children[c].obs = obs
                THEN [key |-> key, obs |-> obs, id |-> id]
                ELSE n.children[c]]]
    ELSE [n EXCEPT !.children = Append(@, [key |-> key, obs |-> obs, id |-> id])]

\* aggregate over the observation branches of one action
getActionStats(ns, n, key) ==
    LET ch == n.children
        v[c \in 0..Len(ch)] ==
            IF c = 0 THEN 0
            ELSE v[c - 1] + (IF ch[c].key = key THEN ns[ch[c].id].visits ELSE 0)
        w[c \in 0..Len(ch)] ==
            IF c = 0 THEN 0
            ELSE w[c - 1] + (IF ch[c].key = key THEN ns[ch[c].id].wins ELSE 0)
    IN [visits |-> v[Len(ch)], wins |-> w[Len(ch)]]

Infinity == 2 ^ 30

\* Math.log(n) in fixed point, for the visit counts the model reaches
LnFx(n) ==
    CASE n = 1 -> 0
      [] n = 2 -> 6931
      [] n = 3 -> 10986
      [] n = 4 -> 13863
      [] n = 5 -> 16094
      [] n = 6 -> 17918
      [] n = 7 -> 19459
      [] n = 8 -> 20794
      [] n = 9 -> 21972
      [] n = 10 -> 23026
      [] n = 11 -> 23979
      [] n = 12 -> 24849

RECURSIVE SqrtBisect(_, _, _)
SqrtBisect(x, lo, hi) ==
    IF hi - lo <= 1 THEN lo
    ELSE LET mid == (lo + hi) \div 2 IN
         IF mid * mid <= x THEN SqrtBisect(x, mid, hi) ELSE SqrtBisect(x, lo, mid)

\* floor of the square root
ISqrt(x) == SqrtBisect(x, 0, Min(x + 1, 46340))

\* UCB1 of an action: a JS number, Infinity for an unvisited action,
\* NaN when this.visits is 0 (Math.log(0) = -Infinity under the root)
ucb1ForAction(ns, n, key) ==
    LET stats == getActionStats(ns, n, key) IN
    IF stats.visits = 0 THEN JsNum(Infinity)
    ELSE IF n.visits = 0 THEN JsNaN
    ELSE LET exploitation == stats.wins \div stats.visits
             exploration == (ucbConstant * ISqrt((LnFx(n.visits) \div stats.visits) * Scale))
                                \div 1000
         IN JsNum(exploitation + exploration)

\* Object.keys(this.children): action keys in order of first insertion
getExploredActions(n) ==
    LET ch == n.children
        firsts == SelectSeq([c \in 1..Len(ch) |-> c],
                            LAMBDA c : \A d \in 1..(c - 1) : ch[d].key # ch[c].key)
    IN [j \in 1..Len(firsts) |-> ch[firsts[j]].key]

\* Object.keys(this.children[key]): observations in order of insertion
ObservationsOf(n, key) ==
    LET ch == n.children
        idx == SelectSeq([c \in 1..Len(ch) |-> c], LAMBDA c : ch[c].key = key)
    IN [j \in 1..Len(idx) |-> ch[idx[j]]]

----------------------------------------------------------------------------
(* algorithm.ts: runPOMCTS *)

\* arguments of runPOMCTS that satisfy the documented preconditions, in M
ValidConfigs ==
    { << 100, 200, 0 >>, << 66, 67, 0 >>, << 60, 66, 0 >>, << 1, 41, 0 >>,
      << 10, 20, 0 >>, << 300, 400, 350 >>, << 100, 200, 200 >>, << 20, 1100, 0 >>,
      << 50, 50, 0 >>, << 11900, 11900, 0 >>, << 12100, 12100, 0 >> }

\* arguments that break them: min > max, a negative bound, a negative massUsed
InvalidConfigs ==
    { << 200, 100, 0 >>, << -50, 100, 0 >>, << 100, 200, -30 >> }

MkCfg(c) == [startMin |-> M(c[1]), startMax |-> M(c[2]), initialMassUsed |-> M(c[3])]

NoCall == [fn |-> "none"]

InitWith(configs) ==
    /\ cfg \in {MkCfg(c) : c \in configs}
    /\ numIterations \in 0..MaxIter
    /\ nodes = << NewNode([min |-> cfg.startMin, max |-> cfg.startMax],
                          cfg.initialMassUsed, 0, "null", "null", 0) >>
    /\ i = 0
    /\ pc = "loop"
    /\ trueMass = 0
    /\ currentMassUsed = 0
    /\ remaining = 0
    /\ path = << >>
    /\ node = 1
    /\ rolledOut = FALSE
    /\ needsExpansion = FALSE
    /\ trips = 0
    /\ simTotalBelief = [min |-> 0, max |-> 0]
    /\ simMassUsed = 0
    /\ call = NoCall

Init == InitWith(ValidConfigs)

InitAny == InitWith(ValidConfigs \cup InvalidConfigs)

\* startMin + Math.random() * (startMax - startMin), Math.random() = k / SampleDen
SampleTrueMass(k) == cfg.startMin + (k * (cfg.startMax - cfg.startMin)) \div SampleDen

\* lines 28-37: loop test, sample a world, start at the root
StartIteration ==
    /\ pc = "loop"
    /\ i < numIterations
    /\ \E k \in 0..(SampleDen - 1) :
          /\ trueMass' = SampleTrueMass(k)
          /\ remaining' = SampleTrueMass(k) - cfg.initialMassUsed
    /\ currentMassUsed' = cfg.initialMassUsed
    /\ path' = << 1 >>
    /\ node' = 1
    /\ rolledOut' = FALSE
    /\ pc' = "select"
    /\ UNCHANGED << cfg, numIterations, nodes, i, needsExpansion, trips,
                    simTotalBelief, simMassUsed, call >>

\* lines 28, 169: loop exit, return root
Finish ==
    /\ pc = "loop"
    /\ i >= numIterations
    /\ pc' = "done"
    /\ UNCHANGED << cfg, numIterations, nodes, i, iterVars, call >>

CurNode == nodes[node]

NewMassUsed(key) == currentMassUsed + ACTIONS_[key].out + ACTIONS_[key].back

\* lines 50-64: first valid action, in order, that survives the outbound jump
\* in the sampled world and whose observation has no child yet ("none" if none)
FirstUnexplored(va) ==
    LET unexplored(k) ==
            /\ ~(remaining <= ACTIONS_[va[k]].out)
            /\ ~hasChild(CurNode, va[k], computeObservation(trueMass, NewMassUsed(va[k])))
    IN IF \E k \in 1..Len(va) : unexplored(k)
       THEN va[CHOOSE k \in 1..Len(va) :
                  unexplored(k) /\ \A j \in 1..(k - 1) : ~unexplored(j)]
       ELSE "none"

\* lines 66-79: the surviving action with the largest UCB1, the first on ties
SelectByUCB(va) ==
    LET best[k \in 0..Len(va)] ==
            IF k = 0 THEN [ucb |-> JsNum(-Infinity), key |-> "none"]
            ELSE IF remaining <= ACTIONS_[va[k]].out THEN best[k - 1]
            ELSE LET ucb == ucb1ForAction(nodes, CurNode, va[k]) IN
                 IF JsGt(ucb, best[k - 1].ucb)
                 THEN [ucb |-> ucb, key |-> va[k]]
                 ELSE best[k - 1]
    IN best[Len(va)].key

\* lines 45-79
Selected(va) ==
    LET u == FirstUnexplored(va) IN
    IF u # "none" THEN [key |-> u, needsExpansion |-> TRUE]
    ELSE [key |-> SelectByUCB(va), needsExpansion |-> FALSE]

\* line 40, 42: the while loop ends (terminal node) or breaks (no valid action)
SelectStop ==
    /\ pc = "select"
    /\ IF ~(~isTerminal(CurNode) /\ ~rolledOut) THEN TRUE
       ELSE Len(getValidActions(CurNode)) = 0
    /\ pc' = "presim"
    /\ UNCHANGED << cfg, numIterations, nodes, i, iterVars, call >>

\* lines 81-91: nothing selected, or the selected action rolls out
SelectRollOut ==
    /\ pc = "select"
    /\ ~isTerminal(CurNode) /\ ~rolledOut
    /\ LET va == getValidActions(CurNode)
           sel == Selected(va)
       IN /\ Len(va) > 0
          /\ IF sel.key = "none" THEN TRUE ELSE remaining <= ACTIONS_[sel.key].out
          /\ needsExpansion' = sel.needsExpansion
    /\ rolledOut' = TRUE
    /\ pc' = "presim"
    /\ UNCHANGED << cfg, numIterations, nodes, i, trueMass, currentMassUsed,
                    remaining, path, node, trips, simTotalBelief, simMassUsed, call >>

\* Faulty variant of ApplySelected: the loop goes on after an expansion
ApplySelectedNoBreak(sel) ==
    LET key == sel.key
        newMassUsed == NewMassUsed(key)
        newRemaining == trueMass - newMassUsed
        observation == computeObservation(trueMass, newMassUsed)
        existing == getChild(CurNode, key, observation)
        child == IF existing # 0 THEN existing ELSE Len(nodes) + 1
    IN /\ nodes' =
            IF existing # 0 THEN nodes
            ELSE Append([nodes EXCEPT ![node] = setChild(@, key, observation, child)],
                        NewNode(updateTotalBelief(CurNode.totalBelief, newMassUsed, observation),
                                newMassUsed, node, key, observation, CurNode.depth + 1))
       /\ remaining' = newRemaining
       /\ currentMassUsed' = newMassUsed
       /\ node' = child
       /\ path' = Append(path, child)
       /\ needsExpansion' = sel.needsExpansion
       /\ pc' = IF newRemaining <= 0 THEN "presim" ELSE "select"
       /\ UNCHANGED << cfg, numIterations, i, trueMass, rolledOut, trips,
                       simTotalBelief, simMassUsed, call >>

\* Faulty variant of ApplySelected: the loop goes on after the hole collapsed
ApplySelectedPastCollapse(sel) ==
    LET key == sel.key
        newMassUsed == NewMassUsed(key)
        newRemaining == trueMass - newMassUsed
        observation == computeObservation(trueMass, newMassUsed)
        existing == getChild(CurNode, key, observation)
        child == IF existing # 0 THEN existing ELSE Len(nodes) + 1
    IN /\ nodes' =
            IF existing # 0 THEN nodes
            ELSE Append([nodes EXCEPT ![node] = setChild(@, key, observation, child)],
                        NewNode(updateTotalBelief(CurNode.totalBelief, newMassUsed, observation),
                                newMassUsed, node, key, observation, CurNode.depth + 1))
       /\ remaining' = newRemaining
       /\ currentMassUsed' = newMassUsed
       /\ node' = child
       /\ path' = Append(path, child)
       /\ needsExpansion' = sel.needsExpansion
       /\ pc' = IF sel.needsExpansion THEN "presim" ELSE "select"
       /\ UNCHANGED << cfg, numIterations, i, trueMass, rolledOut, trips,
                       simTotalBelief, simMassUsed, call >>

\* lines 93-123: apply the selected action, get or create the child, descend
ApplySelected(sel) ==
    LET key == sel.key
        newMassUsed == NewMassUsed(key)
        newRemaining == trueMass - newMassUsed
        observation == computeObservation(trueMass, newMassUsed)
        existing == getChild(CurNode, key, observation)
        child == IF existing # 0 THEN existing ELSE Len(nodes) + 1
    IN /\ nodes' =
            IF existing # 0 THEN nodes
            ELSE Append([nodes EXCEPT ![node] = setChild(@, key, observation, child)],
                        NewNode(updateTotalBelief(CurNode.totalBelief, newMassUsed, observation),
                                newMassUsed, node, key, observation, CurNode.depth + 1))
       /\ remaining' = newRemaining
       /\ currentMassUsed' = newMassUsed
       /\ node' = child
       /\ path' = Append(path, child)
       /\ needsExpansion' = sel.needsExpansion
       /\ pc' = IF newRemaining <= 0 \/ sel.needsExpansion THEN "presim" ELSE "select"
       /\ UNCHANGED << cfg, numIterations, i, trueMass, rolledOut, trips,
                       simTotalBelief, simMassUsed, call >>

CanApply(va, sel) ==
    /\ Len(va) > 0
    /\ sel.key # "none"
    /\ ~(remaining <= ACTIONS_[sel.key].out)

\* the loop body when an unexplored (action, observation) pair was found
SelectExpand ==
    /\ pc = "select"
    /\ ~isTerminal(CurNode) /\ ~rolledOut
    /\ LET va == getValidActions(CurNode)
           sel == Selected(va)
       IN /\ CanApply(va, sel)
          /\ sel.needsExpansion
          /\ ApplySelected(sel)

\* the loop body when the action was selected by UCB1
SelectUCB ==
    /\ pc = "select"
    /\ ~isTerminal(CurNode) /\ ~rolledOut
    /\ LET va == getValidActions(CurNode)
           sel == Selected(va)
       IN /\ CanApply(va, sel)
          /\ ~sel.needsExpansion
          /\ ApplySelected(sel)

\* lines 127-131
BeginSimulation ==
    /\ pc = "presim"
    /\ trips' = CurNode.depth
    /\ simTotalBelief' = [min |-> CurNode.totalBelief.min, max |-> CurNode.totalBelief.max]
    /\ simMassUsed' = currentMassUsed
    /\ pc' = IF ~rolledOut /\ remaining > 0 THEN "simulate" ELSE "backprop"
    /\ UNCHANGED << cfg, numIterations, nodes, i, trueMass, currentMassUsed, remaining,
                    path, node, rolledOut, needsExpansion, call >>

\* lines 134-136
RolloutValid == SelectSeq(ActionKeys, LAMBDA key : remaining > ACTIONS_[key].out)

TripMass(key) == ACTIONS_[key].out + ACTIONS_[key].back

\* lines 143-144: stable sort by descending trip mass, take the first
RolloutPick(va) ==
    va[CHOOSE k \in 1..Len(va) :
          /\ \A j \in 1..Len(va) : TripMass(va[j]) <= TripMass(va[k])
          /\ \A j \in 1..(k - 1) : TripMass(va[j]) < TripMass(va[k])]

\* Faulty variant of RolloutStep: the trip is not counted
RolloutStepUncounted ==
    /\ pc = "simulate"
    /\ remaining > 0 /\ trips < maxDepth
    /\ Len(RolloutValid) > 0
    /\ LET act == ACTIONS_[RolloutPick(RolloutValid)] IN
          /\ trips' = trips
          /\ simMassUsed' = simMassUsed + act.out + act.back
          /\ remaining' = trueMass - (simMassUsed + act.out + act.back)
    /\ UNCHANGED << cfg, numIterations, nodes, i, pc, trueMass, currentMassUsed, path,
                    node, rolledOut, needsExpansion, simTotalBelief, call >>

\* lines 132-153: one pass of the rollout loop
RolloutStep ==
    /\ pc = "simulate"
    /\ remaining > 0 /\ trips < maxDepth
    /\ Len(RolloutValid) > 0
    /\ LET act == ACTIONS_[RolloutPick(RolloutValid)] IN
          /\ trips' = trips + 1
          /\ simMassUsed' = simMassUsed + act.out + act.back
          /\ remaining' = trueMass - (simMassUsed + act.out + act.back)
    /\ UNCHANGED << cfg, numIterations, nodes, i, pc, trueMass, currentMassUsed, path,
                    node, rolledOut, needsExpansion, simTotalBelief, call >>

\* lines 137-140
RolloutRolledOut ==
    /\ pc = "simulate"
    /\ remaining > 0 /\ trips < maxDepth
    /\ Len(RolloutValid) = 0
    /\ rolledOut' = TRUE
    /\ pc' = "backprop"
    /\ UNCHANGED << cfg, numIterations, nodes, i, trueMass, currentMassUsed, remaining,
                    path, node, needsExpansion, trips, simTotalBelief, simMassUsed, call >>

\* line 132: the rollout loop ends
RolloutStop ==
    /\ pc = "simulate"
    /\ ~(remaining > 0 /\ trips < maxDepth)
    /\ pc' = "backprop"
    /\ UNCHANGED << cfg, numIterations, nodes, i, iterVars, call >>

\* Math.pow(CONFIG.tripDecay, t), fixed point
RECURSIVE DecayPow(_)
DecayPow(t) == IF t = 0 THEN Scale ELSE (DecayPow(t - 1) * tripDecay) \div 100

\* n.successes++
JsInc(x) == JsAdd(x, JsNum(1))

\* Faulty variant of Visit: the root's visits are not counted
VisitBelowRoot(n, success, score, t) ==
    [n EXCEPT !.visits = IF n.parent = 0 THEN @ ELSE @ + 1,
              !.wins = IF success THEN @ + score ELSE @,
              !.successes = IF success THEN JsInc(@) ELSE @,
              !.terminalTrips =
                  IF ~success THEN @
                  ELSE IF t \in DOMAIN @ THEN [@ EXCEPT ![t] = @ + 1]
                  ELSE (t :> 1) @@ @]

\* lines 160-165 for one node of the path
Visit(n, success, score, t) ==
    [n EXCEPT !.visits = @ + 1,
              !.wins = IF success THEN @ + score ELSE @,
              !.successes = IF success THEN JsInc(@) ELSE @,
              !.terminalTrips =
                  IF ~success THEN @
                  ELSE IF t \in DOMAIN @ THEN [@ EXCEPT ![t] = @ + 1]
                  ELSE (t :> 1) @@ @]

\* Faulty variant of Success: a rolled-out iteration can score
SuccessIgnoringRollOut == remaining <= 0

Success == ~rolledOut /\ remaining <= 0

\* lines 157-166, then the next pass of the for loop
Backpropagate ==
    /\ pc = "backprop"
    /\ LET success == Success
           score == IF success THEN DecayPow(trips) ELSE 0
           bp[k \in 0..Len(path)] ==
               IF k = 0 THEN nodes
               ELSE [bp[k - 1] EXCEPT ![path[k]] = Visit(@, success, score, trips)]
       IN nodes' = bp[Len(path)]
    /\ i' = i + 1
    /\ pc' = "loop"
    /\ trueMass' = 0
    /\ currentMassUsed' = 0
    /\ remaining' = 0
    /\ path' = << >>
    /\ node' = 1
    /\ rolledOut' = FALSE
    /\ needsExpansion' = FALSE
    /\ trips' = 0
    /\ simTotalBelief' = [min |-> 0, max |-> 0]
    /\ simMassUsed' = 0
    /\ UNCHANGED << cfg, numIterations, call >>

----------------------------------------------------------------------------
(* results.ts *)

\* sum of parseInt(trips) * count over Object.entries(terminalTrips)
RECURSIVE TripSum(_, _)
TripSum(tt, S) ==
    IF S = {} THEN 0
    ELSE LET t == CHOOSE x \in S : TRUE IN t * tt[t] + TripSum(tt, S \ {t})

\* lines 30-48: aggregate across the observation branches of one action
Aggregate(ns, root, key) ==
    LET obs == ObservationsOf(root, key)
        child(c) == ns[obs[c].id]
        v[c \in 0..Len(obs)] == IF c = 0 THEN 0 ELSE v[c - 1] + child(c).visits
        w[c \in 0..Len(obs)] == IF c = 0 THEN 0 ELSE w[c - 1] + child(c).wins
        su[c \in 0..Len(obs)] ==
            IF c = 0 THEN JsNum(0) ELSE JsAdd(su[c - 1], child(c).successes)
        tr[c \in 0..Len(obs)] ==
            IF c = 0 THEN 0
            ELSE tr[c - 1] + TripSum(child(c).terminalTrips, DOMAIN child(c).terminalTrips)
    IN [ totalVisits |-> v[Len(obs)], totalWins |-> w[Len(obs)],
         totalSuccesses |-> su[Len(obs)], totalTrips |-> tr[Len(obs)] ]

\* line 52: totalSuccesses > 0 ? totalTrips / totalSuccesses : 0
ObservedAvgSteps(agg) ==
    IF JsGt(agg.totalSuccesses, JsNum(0))
    THEN (agg.totalTrips * Scale) \div agg.totalSuccesses.v
    ELSE 0

\* lines 57-68
AvgSteps(action, rb, observedAvgSteps) ==
    LET actionMass == action.out + action.back IN
    IF rb.max > action.out THEN
        LET validRange == rb.max - action.out
            oneTrip == Min(validRange, Max(0, actionMass - action.out))
            pOneTrip == (oneTrip * Scale) \div validRange
        IN IF oneTrip * 100 < 95 * validRange /\ 2 * observedAvgSteps < 3 * Scale
           THEN pOneTrip * 1 + (Scale - pOneTrip) * 2
           ELSE observedAvgSteps
    ELSE observedAvgSteps

\* Faulty variant of PSafeOutbound: the test action.out > remaining.min is missing
PSafeOutboundAlways(action, rb) ==
    LET beliefRange == rb.max - rb.min IN
    IF beliefRange > 0
    THEN [num |-> Max(0, rb.max - action.out), den |-> beliefRange]
    ELSE [num |-> 1, den |-> 1]

\* lines 73-78: pSafeOutbound as a fraction num / den
PSafeOutbound(action, rb) ==
    LET beliefRange == rb.max - rb.min IN
    IF beliefRange > 0 /\ action.out > rb.min
    THEN [num |-> Max(0, rb.max - action.out), den |-> beliefRange]
    ELSE [num |-> 1, den |-> 1]

\* line 81: totalVisits > 0 ? totalSuccesses / totalVisits : 0
ObservedSuccessRate(agg) ==
    IF agg.totalVisits > 0
    THEN IF IsNum(ToNumber(agg.totalSuccesses))
         THEN JsNum((agg.totalSuccesses.v * Scale) \div agg.totalVisits)
         ELSE JsNaN
    ELSE JsNum(0)

\* line 85: totalVisits > 0 ? totalWins / totalVisits : 0
ObservedScore(agg) ==
    IF agg.totalVisits > 0 THEN agg.totalWins \div agg.totalVisits ELSE 0

\* pSafeOutbound * x for a JS number x
JsScale(p, x) == IF IsNum(x) THEN JsNum((p.num * x.v) \div p.den) ELSE JsNaN

\* Faulty variant of GuaranteedSafe: compares with remaining.max
GuaranteedSafeByMax(action, rb) == rb.max > action.out

GuaranteedSafe(action, rb) == rb.min > action.out

\* lines 27-101: the result pushed for one explored action
ActionResult(ns, root, key) ==
    LET agg == Aggregate(ns, root, key)
        action == ACTIONS_[key]
        rb == getRemainingBelief(root)
        p == PSafeOutbound(action, rb)
    IN [ key |-> key,
         act |-> action,
         visits |-> agg.totalVisits,
         wins |-> agg.totalWins,
         successes |-> agg.totalSuccesses,
         total |-> agg.totalVisits,
         successRate |-> JsScale(p, ObservedSuccessRate(agg)),
         strategyScore |-> (p.num * ObservedScore(agg)) \div p.den,
         avgSteps |-> AvgSteps(action, rb, ObservedAvgSteps(agg)),
         mass |-> action.out + action.back,
         guaranteedSafe |-> GuaranteedSafe(action, rb) ]

\* Faulty variant of CompareResults: ascending strategy score
CompareResultsAscending(a, b) ==
    LET scoreDiff == a.strategyScore - b.strategyScore IN
    IF scoreDiff # 0 THEN scoreDiff ELSE a.avgSteps - b.avgSteps

\* lines 105-109: the comparator of results.sort
CompareResults(a, b) ==
    LET scoreDiff == b.strategyScore - a.strategyScore IN
    IF scoreDiff # 0 THEN scoreDiff ELSE a.avgSteps - b.avgSteps

\* Array.prototype.sort: the stable ordering by the comparator
RECURSIVE SortResults(_)
SortResults(rs) ==
    IF Len(rs) <= 1 THEN rs
    ELSE LET front == SortResults(SubSeq(rs, 1, Len(rs) - 1))
             x == rs[Len(rs)]
             keep == Cardinality({k \in 1..Len(front) : CompareResults(front[k], x) <= 0})
         IN SubSeq(front, 1, keep) \o << x >> \o SubSeq(front, keep + 1, Len(front))

UnsortedResults(ns) ==
    LET keys == getExploredActions(ns[1]) IN
    [k \in 1..Len(keys) |-> ActionResult(ns, ns[1], keys[k])]

getMCTSActionResults(ns) == SortResults(UnsortedResults(ns))

\* sequence of the elements of a finite set of integers, ascending
RECURSIVE Ascending(_)
Ascending(S) ==
    IF S = {} THEN << >>
    ELSE LET m == CHOOSE x \in S : \A y \in S : x <= y IN << m >> \o Ascending(S \ {m})

\* lines 118-130
getMCTSTripDistribution(ns) ==
    LET root == ns[1]
        totalWins == root.wins
        pct(t) == (root.terminalTrips[t] * Scale * Scale) \div totalWins
        shown == {t \in DOMAIN root.terminalTrips : pct(t) * 100 >= Scale}
        order == Ascending(shown)
    IN IF totalWins = 0 THEN << >>
       ELSE [k \in 1..Len(order) |-> [trips |-> order[k], pct |-> pct(order[k])]]

----------------------------------------------------------------------------
Next ==
    \/ StartIteration
    \/ Finish
    \/ SelectStop
    \/ SelectRollOut
    \/ SelectExpand
    \/ SelectUCB
    \/ BeginSimulation
    \/ RolloutStep
    \/ RolloutRolledOut
    \/ RolloutStop
    \/ Backpropagate

Spec == Init /\ [][Next]_vars

\* runPOMCTS runs to completion once called: a single thread that is never
\* suspended (no await, no I/O), so a step that is enabled is taken
SpecFair == Init /\ [][Next]_vars /\ WF_vars(Next)

SpecAny == InitAny /\ [][Next]_vars

----------------------------------------------------------------------------
(* Direct calls of the exported pure functions *)

\* arguments tried, in M
PureTrueMasses == {-20, 0, 1, 10, 20, 100, 2000}
PureMassUsed == {-10, 0, 1, 5, 9, 10, 18, 19, 20, 500, 1000, 1200, 1800, 1850, 2000, 2100}
PureBeliefs == { << 1800, 2200 >>, << 100, 200 >>, << 66, 67 >>, << 0, 40 >>, << 1000, 1000 >> }

ObserveCall ==
    /\ \E tm \in PureTrueMasses, mu \in PureMassUsed :
          call' = [ fn |-> "computeObservation", trueMass |-> M(tm), massUsed |-> M(mu),
                    result |-> computeObservation(M(tm), M(mu)) ]
    /\ UNCHANGED << cfg, numIterations, nodes, i, pc, iterVars >>

UpdateBeliefCall ==
    /\ \E b \in PureBeliefs, mu \in PureMassUsed, obs \in Observations :
          LET belief == [min |-> M(b[1]), max |-> M(b[2])] IN
          \* currentTotalBelief is only read (lines 34-35): beliefAfter is the
          \* argument object as the call leaves it
          call' = [ fn |-> "updateTotalBelief", belief |-> belief, massUsed |-> M(mu),
                    observation |-> obs, beliefAfter |-> belief,
                    result |-> updateTotalBelief(belief, M(mu), obs) ]
    /\ UNCHANGED << cfg, numIterations, nodes, i, pc, iterVars >>

InitPure == InitWith({ << 100, 200, 0 >> })

NextPure ==
    \/ ObserveCall
    \/ UpdateBeliefCall

SpecPure == InitPure /\ [][NextPure]_vars

----------------------------------------------------------------------------
(* Properties *)

Root == nodes[1]
RootRemaining == getRemainingBelief(Root)
NodeIds == 1..Len(nodes)
InIteration == pc \in {"select", "presim", "simulate", "backprop"}
Results == getMCTSActionResults(nodes)
ValidCfg(c) ==
    c.startMin <= c.startMax /\ c.startMin >= 0 /\ c.startMax >= 0 /\ c.initialMassUsed >= 0

\* C1: after at least one completed iteration every node n satisfies
\* n.successes <= n.visits and 0 <= n.wins <= n.successes.
C1_StatsBounded ==
    (pc \in {"loop", "done"} /\ i >= 1) =>
        \A n \in NodeIds :
            /\ JsLe(nodes[n].successes, JsNum(nodes[n].visits))
            /\ 0 <= nodes[n].wins
            /\ IsNum(ToNumber(nodes[n].successes))
            /\ nodes[n].wins <= nodes[n].successes.v * Scale

\* C2: an action that is guaranteed safe at the root (remaining.min > out)
\* survives the outbound jump in every sampled world, and no iteration is
\* rolled out at the root while action_results reports such an action.
C2_GuaranteedSafeSurvives ==
    InIteration =>
        /\ \A k \in 1..Len(ActionKeys) :
              GuaranteedSafe(ACTIONS_[ActionKeys[k]], RootRemaining)
                  => trueMass - cfg.initialMassUsed > ACTIONS_[ActionKeys[k]].out
        /\ (rolledOut /\ node = 1) =>
              LET rs == Results IN \A r \in 1..Len(rs) : ~rs[r].guaranteedSafe

\* C2 witness: an iteration took, at the root, an action that action_results
\* reports as guaranteed safe.
C2_Witness ==
    /\ pc = "backprop"
    /\ Len(path) >= 2
    /\ LET rs == Results IN
          \E r \in 1..Len(rs) :
              rs[r].guaranteedSafe /\ rs[r].key = nodes[path[2]].incomingActionKey

\* C3: every node of the tree has total_belief.min <= total_belief.max.
C3_BeliefNonEmpty ==
    \A n \in NodeIds : nodes[n].totalBelief.min <= nodes[n].totalBelief.max

\* C4 as stated: valid_actions() is exactly the catalog entries, in catalog
\* order, with out < remaining.max.
C4_Permissive ==
    \A n \in NodeIds :
        getValidActions(nodes[n]) =
            SelectSeq(ActionKeys,
                      LAMBDA key : ACTIONS_[key].out < getRemainingBelief(nodes[n]).max)

\* C4 amended: valid_actions() is exactly the catalog entries, in catalog order,
\* with out < remaining.max that are efficient (8 * (out + back) >= remaining.max)
\* or have out < remaining.min while no efficient entry with out < remaining.max
\* has out < remaining.min.
C4_EfficientOrSafe ==
    \A n \in NodeIds :
        LET R == getRemainingBelief(nodes[n])
            efficient(key) == 8 * (ACTIONS_[key].out + ACTIONS_[key].back) >= R.max
            safe(key) == ACTIONS_[key].out < R.min
            survivable(key) == ACTIONS_[key].out < R.max
            anyEfficientSafe ==
                \E k \in 1..Len(ActionKeys) :
                    efficient(ActionKeys[k]) /\ safe(ActionKeys[k]) /\ survivable(ActionKeys[k])
        IN getValidActions(nodes[n]) =
              SelectSeq(ActionKeys,
                        LAMBDA key : survivable(key)
                                     /\ (efficient(key) \/ (safe(key) /\ ~anyEfficientSafe)))

\* C4 witness: the selection step stands at a node where valid_actions()
\* leaves out a survivable action and keeps an inefficient one.
C4_Witness ==
    /\ pc = "select"
    /\ LET R == getRemainingBelief(CurNode)
           va == getValidActions(CurNode)
       IN /\ \E k \in 1..Len(ActionKeys) :
                /\ ACTIONS_[ActionKeys[k]].out < R.max
                /\ \A j \in 1..Len(va) : va[j] # ActionKeys[k]
          /\ \E j \in 1..Len(va) : ~IsEfficient(ACTIONS_[va[j]], R)

\* C5: plan called with an invalid belief or a negative mass_used does not run
\* the search: the tree stays the bare root and action_results is empty.
C5_InvalidNotSearched ==
    ~ValidCfg(cfg) =>
        /\ Len(nodes) = 1
        /\ Root.visits = 0
        /\ Len(getExploredActions(Root)) = 0

\* C6: for every returned action with out > R.min and R.max > R.min,
\* success_rate = (max(0, R.max - out) / (R.max - R.min)) * (successes / visits),
\* a number strictly below 1.
C6_SuccessRateDiscounted ==
    pc = "done" =>
        LET rs == Results
            R == RootRemaining
        IN \A r \in 1..Len(rs) :
              (rs[r].act.out > R.min /\ R.max - R.min > 0) =>
                  /\ IsNum(rs[r].successRate)
                  /\ IsNum(ToNumber(rs[r].successes))
                  /\ rs[r].successRate.v =
                        (Max(0, R.max - rs[r].act.out)
                            * ((rs[r].successes.v * Scale) \div rs[r].visits))
                            \div (R.max - R.min)
                  /\ rs[r].successRate.v < Scale

C9_TripDistributionIsProbability ==
    pc = "done" =>
        LET d == getMCTSTripDistribution(nodes)
            total[k \in 0..Len(d)] == IF k = 0 THEN 0 ELSE total[k - 1] + d[k].pct
        IN /\ \A k \in 1..Len(d) : d[k].pct <= Scale
           /\ total[Len(d)] <= Scale

\* C10: for true_mass > 0 and mass_used >= 0, observe returns collapsed iff
\* remaining <= 0, else crit iff remaining <= 0.10 * true_mass, else shrink
\* iff remaining <= 0.50 * true_mass, else fresh.
C10_ObservationBuckets ==
    (call.fn = "computeObservation" /\ call.trueMass > 0 /\ call.massUsed >= 0) =>
        LET rem == call.trueMass - call.massUsed IN
        /\ (call.result = "collapsed") <=> (rem <= 0)
        /\ (call.result = "crit") <=> (rem > 0 /\ 10 * rem <= call.trueMass)
        /\ (call.result = "shrink") <=>
              (rem > 0 /\ 10 * rem > call.trueMass /\ 2 * rem <= call.trueMass)
        /\ (call.result = "fresh") <=> (rem > 0 /\ 2 * rem > call.trueMass)

\* C10 witness: a call exactly on the 10% threshold, answered crit.
C10_Witness ==
    /\ call.fn = "computeObservation"
    /\ call.trueMass > 0
    /\ call.massUsed >= 0
    /\ 10 * (call.trueMass - call.massUsed) = call.trueMass
    /\ call.result = "crit"

\* C11: update_total_belief(b, u, obs) returns, leaving b as it was,
\* [max(b.min, 2u + 1), b.max] for fresh, [max(b.min, u/0.9 + 1), min(b.max, 2u)]
\* for shrink, [b.min, min(b.max, u/0.9)] for crit and b for collapsed.
C11_UpdateTotalBelief ==
    call.fn = "updateTotalBelief" =>
        LET b == call.belief
            u == call.massUsed
            r == call.result
            one == MassUnit
            larger(x, y) == IF x > y THEN x ELSE y
            smaller(x, y) == IF x < y THEN x ELSE y
        IN /\ call.beliefAfter = b
           /\ call.observation = "fresh" =>
                 r.min = larger(b.min, 2 * u + one) /\ r.max = b.max
           /\ call.observation = "shrink" =>
                 /\ 9 * r.min = larger(9 * b.min, 10 * u + 9 * one)
                 /\ r.max = smaller(b.max, 2 * u)
           /\ call.observation = "crit" =>
                 r.min = b.min /\ 9 * r.max = smaller(9 * b.max, 10 * u)
           /\ call.observation = "collapsed" => r = b

\* C11 witness: a fresh observation that raises the lower bound to 2u + 1.
C11_Witness ==
    /\ call.fn = "updateTotalBelief"
    /\ call.observation = "fresh"
    /\ call.result.min = 2 * call.massUsed + MassUnit
    /\ call.result.min > call.belief.min
    /\ call.result.max = call.belief.max

\* C12: update_total_belief is idempotent: applying it again to its own result,
\* with the same mass_used and observation, returns that result.
C12_Idempotent ==
    call.fn = "updateTotalBelief" =>
        updateTotalBelief(call.result, call.massUsed, call.observation) = call.result

\* C12 witness: a shrink observation that narrowed both bounds, applied again.
C12_Witness ==
    /\ call.fn = "updateTotalBelief"
    /\ call.observation = "shrink"
    /\ call.result.min > call.belief.min
    /\ call.result.max < call.belief.max
    /\ updateTotalBelief(call.result, call.massUsed, call.observation) = call.result

\* C13: for every non-root node c with parent p, c.total_belief.min >=
\* p.total_belief.min and c.total_belief.max <= p.total_belief.max.
C13_BeliefsNarrow ==
    \A c \in NodeIds :
        nodes[c].parent # 0 =>
            /\ nodes[c].totalBelief.min >= nodes[nodes[c].parent].totalBelief.min
            /\ nodes[c].totalBelief.max <= nodes[nodes[c].parent].totalBelief.max

\* C13 witness: a tree with a child whose lower bound was raised, a child
\* whose upper bound was lowered and a child that kept its parent's lower
\* bound although the observation's own bound is below it.
C13_Witness ==
    /\ \E c \in NodeIds :
          /\ nodes[c].parent # 0
          /\ nodes[c].totalBelief.min > nodes[nodes[c].parent].totalBelief.min
    /\ \E c \in NodeIds :
          /\ nodes[c].parent # 0
          /\ nodes[c].totalBelief.max < nodes[nodes[c].parent].totalBelief.max
    /\ \E c \in NodeIds :
          /\ nodes[c].parent # 0
          /\ nodes[c].incomingObservation = "fresh"
          /\ 2 * nodes[c].massUsed + MassUnit < nodes[nodes[c].parent].totalBelief.min
          /\ nodes[c].totalBelief.min = nodes[nodes[c].parent].totalBelief.min

\* C14: for every node n and every action key k that has children under n,
\* the visits that action_stats(n, k) sums over k's observation children are
\* at most n.visits.
C14_ActionVisitsBounded ==
    \A n \in NodeIds :
        LET keys == getExploredActions(nodes[n]) IN
        \A k \in 1..Len(keys) :
            getActionStats(nodes, nodes[n], keys[k]).visits <= nodes[n].visits

\* C14 witness: an action with two visited observation children under a node
\* that was also visited through another action.
C14_Witness ==
    \E n \in NodeIds :
        LET keys == getExploredActions(nodes[n]) IN
        \E k \in 1..Len(keys) :
            LET obs == ObservationsOf(nodes[n], keys[k]) IN
            /\ Len(obs) >= 2
            /\ \A c \in 1..Len(obs) : nodes[obs[c].id].visits >= 1
            /\ getActionStats(nodes, nodes[n], keys[k]).visits < nodes[n].visits
            /\ getActionStats(nodes, nodes[n], keys[k]).visits >= 2

\* sum of the counts of a terminal_trips histogram
RECURSIVE CountsOver(_, _)
CountsOver(tt, S) ==
    IF S = {} THEN 0
    ELSE LET t == CHOOSE x \in S : TRUE IN tt[t] + CountsOver(tt, S \ {t})

\* C15: at every node, after any number of iterations, the sum of the counts
\* in terminal_trips is at most the node's successes.
C15_TerminalTripsBounded ==
    (pc \in {"loop", "done"} /\ i >= 1) =>
        \A n \in NodeIds :
            JsLe(JsNum(CountsOver(nodes[n].terminalTrips, DOMAIN nodes[n].terminalTrips)),
                 nodes[n].successes)

\* C16: every returned action whose round-trip mass out + back is strictly
\* below the root's R.min has avg_steps >= 2, whatever the number of
\* iterations run.
C16_AvgStepsAtLeastTwo ==
    pc = "done" =>
        LET rs == Results
            R == RootRemaining
        IN \A r \in 1..Len(rs) :
              rs[r].act.out + rs[r].act.back < R.min => rs[r].avgSteps >= 2 * Scale

\* the world sampled by the running iteration leaves, at the root, more mass
\* than the out of some action of valid_actions(root)
SampledWorldCanJump ==
    /\ ~isTerminal(Root)
    /\ LET va == getValidActions(Root) IN
          \E k \in 1..Len(va) : trueMass - cfg.initialMassUsed > ACTIONS_[va[k]].out

\* C17: if the root is not terminal and an iteration that sampled a world whose
\* remaining mass at the root exceeds the out of some action in
\* valid_actions(root) completes, then from its completion on the root has at
\* least one child and action_results(root) is non-empty.
C17_RootGetsChild ==
    /\ []( /\ (pc = "backprop" /\ SampledWorldCanJump) => Len(Root.children) >= 1
           /\ Len(Root.children) >= 1 => Len(Results) >= 1 )
    /\ [][ Len(Root.children) >= 1 => Len(Root.children') >= 1 ]_vars

\* C17 witness: a completed run on a point belief (total_min = total_max)
\* whose root has a child and a non-empty action_results.
C17_Witness ==
    /\ pc = "done"
    /\ i >= 1
    /\ cfg.startMin = cfg.startMax
    /\ ~isTerminal(Root)
    /\ Len(Root.children) >= 1
    /\ Len(Results) >= 1

\* C18: wins or successes of a node change at the end of an iteration only if
\* the iteration is not rolled out and its sampled remaining mass is <= 0;
\* every round trip applied to the sampled world, in the tree phase or in the
\* rollout, is the trip of a catalog action whose out was strictly below the
\* sampled remaining mass when it was applied (the eight trip masses are
\* distinct, so the mass applied names the action).
C18_SuccessOnlyAfterSafeTrips ==
    [][ /\ (pc \in {"select", "simulate"} /\ remaining' # remaining) =>
              \E k \in 1..Len(ActionKeys) :
                  LET act == ACTIONS_[ActionKeys[k]] IN
                  /\ remaining' = remaining - (act.out + act.back)
                  /\ remaining > act.out
        /\ pc = "backprop" =>
              /\ (\E n \in NodeIds : nodes'[n].wins # nodes[n].wins
                                     \/ nodes'[n].successes # nodes[n].successes
                                     \/ nodes'[n].terminalTrips # nodes[n].terminalTrips)
                     => (~rolledOut /\ remaining <= 0)
              /\ rolledOut => \A n \in NodeIds : nodes'[n].wins = nodes[n].wins
      ]_vars

\* C18 witness: a successful iteration about to be scored, after a tree step
\* and at least one rollout trip.
C18_Witness ==
    /\ pc = "backprop"
    /\ Success
    /\ Len(path) >= 2
    /\ trips > CurNode.depth
    /\ DecayPow(trips) > 0

\* C19: each iteration adds exactly 1 to visits on exactly the nodes of its
\* path (so root.visits is the number of completed iterations); a failed
\* iteration leaves wins, successes and terminal_trips of every node unchanged,
\* and a successful one changes them only on the path nodes: wins +=
\* decay^trips, successes += 1, terminal_trips[trips] += 1.
C19_BackpropagationFrame ==
    [][ pc = "backprop" =>
          LET onPath(n) == \E k \in 1..Len(path) : path[k] = n
              success == ~rolledOut /\ remaining <= 0
              count(tt, t) == IF t \in DOMAIN tt THEN tt[t] ELSE 0
          IN /\ Len(nodes') = Len(nodes)
             /\ nodes'[1].visits = i'
             /\ \A n \in NodeIds :
                   /\ nodes'[n].visits = nodes[n].visits + (IF onPath(n) THEN 1 ELSE 0)
                   /\ ~(success /\ onPath(n)) =>
                         /\ nodes'[n].wins = nodes[n].wins
                         /\ nodes'[n].successes = nodes[n].successes
                         /\ nodes'[n].terminalTrips = nodes[n].terminalTrips
                   /\ (success /\ onPath(n)) =>
                         /\ nodes'[n].wins = nodes[n].wins + DecayPow(trips)
                         /\ DOMAIN nodes'[n].terminalTrips =
                                DOMAIN nodes[n].terminalTrips \cup {trips}
                         /\ \A t \in DOMAIN nodes'[n].terminalTrips :
                                nodes'[n].terminalTrips[t] =
                                    count(nodes[n].terminalTrips, t)
                                        + (IF t = trips THEN 1 ELSE 0)
                         /\ IsNum(nodes'[n].successes)
                         /\ nodes'[n].successes.v =
                                (IF IsNum(nodes[n].successes) THEN nodes[n].successes.v ELSE 0) + 1
      ]_vars

\* C20: an iteration creates at most one tree node, and only for an (action,
\* observation) pair without a child at the current node, the first such pair
\* in catalog order under the sampled world; a step that descends without
\* creating a node goes to the existing child of the resulting observation;
\* after N iterations the tree has at most N + 1 nodes.
C20_OneNodePerIteration ==
    /\ [](Len(nodes) <= i + 1 + (IF pc \in {"presim", "simulate", "backprop"} THEN 1 ELSE 0))
    /\ [][ LET cur == nodes[node]
               obsOf(key) == computeObservation(trueMass,
                                 currentMassUsed + ACTIONS_[key].out + ACTIONS_[key].back)
               survives(key) == remaining > ACTIONS_[key].out
               catalogIndex(key) == CHOOSE k \in 1..Len(ActionKeys) : ActionKeys[k] = key
               valid == getValidActions(cur)
           IN /\ Len(nodes') \in {Len(nodes), Len(nodes) + 1}
              /\ Len(nodes') = Len(nodes) + 1 =>
                    LET c == nodes'[Len(nodes')] IN
                    /\ pc = "select" /\ pc' = "presim"
                    /\ node' = Len(nodes')
                    /\ c.parent = node
                    /\ c.incomingObservation = obsOf(c.incomingActionKey)
                    /\ survives(c.incomingActionKey)
                    /\ ~hasChild(cur, c.incomingActionKey, c.incomingObservation)
                    /\ getChild(nodes'[node], c.incomingActionKey, c.incomingObservation)
                           = Len(nodes')
                    /\ \A v \in 1..Len(valid) :
                           (catalogIndex(valid[v]) < catalogIndex(c.incomingActionKey)
                                /\ survives(valid[v]))
                               => hasChild(cur, valid[v], obsOf(valid[v]))
              /\ (pc = "select" /\ node' # node /\ Len(nodes') = Len(nodes)) =>
                    /\ \A v \in 1..Len(valid) :
                           survives(valid[v]) => hasChild(cur, valid[v], obsOf(valid[v]))
                    /\ node' = getChild(cur, nodes[node'].incomingActionKey,
                                        obsOf(nodes[node'].incomingActionKey))
                    /\ nodes[node'].parent = node
       ]_vars

\* C20 witness: an iteration that descended to an existing child chosen by
\* UCB1 and then created one node below it.
C20_Witness ==
    /\ pc = "backprop"
    /\ Len(path) >= 3
    /\ needsExpansion
    /\ path[Len(path)] = Len(nodes)
    /\ nodes[Len(nodes)].visits = 0
    /\ nodes[path[2]].visits >= 1

\* C21: on every successful iteration the trip count recorded in
\* terminal_trips, which is also the exponent of the decay score, is the number
\* of round trips applied to the sampled world in that iteration: one per tree
\* step (the depth of the last path node) plus one per rollout step.
C21_TripsCountRoundTrips ==
    /\ []( /\ \A n \in NodeIds :
                nodes[n].depth = IF nodes[n].parent = 0 THEN 0
                                 ELSE nodes[nodes[n].parent].depth + 1
           /\ InIteration =>
                /\ path[1] = 1
                /\ node = path[Len(path)]
                /\ \A k \in 2..Len(path) : nodes[path[k]].parent = path[k - 1]
                /\ currentMassUsed - cfg.initialMassUsed >= (Len(path) - 1) * hicEnt * 2
           /\ pc \in {"simulate", "backprop"} =>
                /\ trips >= Len(path) - 1
                /\ simMassUsed - currentMassUsed >= (trips - (Len(path) - 1)) * hicEnt * 2
                /\ simMassUsed - currentMassUsed <= (trips - (Len(path) - 1)) * bsHot * 2
                /\ remaining = trueMass - simMassUsed )
    /\ [][ /\ (pc = "select" /\ remaining' # remaining) => Len(path') = Len(path) + 1
           /\ (pc = "select" /\ remaining' = remaining) => path' = path
           /\ pc = "presim" => (trips' = Len(path) - 1 /\ path' = path)
           /\ (pc = "simulate" /\ remaining' # remaining) => (trips' = trips + 1 /\ path' = path)
           /\ (pc = "simulate" /\ remaining' = remaining) => (trips' = trips /\ path' = path)
           /\ (pc = "backprop" /\ ~rolledOut /\ remaining <= 0) =>
                 \A k \in 1..Len(path) :
                     LET old == nodes[path[k]]
                         new == nodes'[path[k]]
                     IN /\ trips \in DOMAIN new.terminalTrips
                        /\ new.terminalTrips[trips] =
                               (IF trips \in DOMAIN old.terminalTrips
                                THEN old.terminalTrips[trips] ELSE 0) + 1
                        /\ \A t \in DOMAIN old.terminalTrips \ {trips} :
                               new.terminalTrips[t] = old.terminalTrips[t]
                        /\ new.wins = old.wins + DecayPow(trips)
       ]_vars

\* C21 witness: a successful iteration about to be recorded after one tree
\* step and nineteen rollout steps.
C21_Witness ==
    /\ pc = "backprop"
    /\ Success
    /\ Len(path) = 2
    /\ trips = 1 + 19
    /\ simMassUsed > currentMassUsed

\* order of the positions inside one iteration of runPOMCTS
Phase(p) ==
    CASE p = "loop" -> 0
      [] p = "select" -> 1
      [] p = "presim" -> 2
      [] p = "simulate" -> 3
      [] p = "backprop" -> 4
      [] p = "done" -> 5

\* C22: plan with any finite N >= 0 terminates after N iterations: a pass of
\* the selection loop either leaves the loop or descends one level to a child,
\* and leaves it at the latest when it has expanded a new leaf; the rollout
\* loop performs at most max_depth steps; with N = 0 the root is returned with
\* no children and zero statistics (visits, wins, successes, terminal_trips).
C22_Terminates ==
    /\ <>(pc = "done")
    /\ [](pc = "done" => i = numIterations)
    /\ [](pc = "simulate" => trips - (Len(path) - 1) <= maxDepth)
    /\ []((pc = "done" /\ numIterations = 0) =>
              /\ Len(nodes) = 1
              /\ Len(Root.children) = 0
              /\ Root.visits = 0
              /\ Root.wins = 0
              /\ DOMAIN Root.terminalTrips = {}
              /\ Root.successes = JsNum(0))
    /\ [][ /\ pc = "select" =>
                \/ pc' = "presim" /\ (node' = node \/ nodes'[node'].parent = node)
                \/ /\ pc' = "select"
                   /\ Len(nodes') = Len(nodes)
                   /\ nodes[node'].parent = node
                   /\ nodes[node'].depth = nodes[node].depth + 1
           /\ pc = "simulate" =>
                \/ pc' = "backprop"
                \/ pc' = "simulate" /\ trips' = trips + 1 /\ trips' <= maxDepth
           /\ pc = "backprop" => (pc' = "loop" /\ i' = i + 1)
           /\ \/ i' > i /\ i' <= numIterations
              \/ i' = i /\ Phase(pc') > Phase(pc)
              \/ i' = i /\ pc = "select" /\ pc' = "select" /\ Len(path') > Len(path)
              \/ i' = i /\ pc = "simulate" /\ pc' = "simulate" /\ trips' > trips
       ]_vars

\* C23: getValidActions never returns an action with remaining.max <= out,
\* returns every survivable action with out + back >= remaining.max /
\* maxReasonableTrips, and returns a survivable inefficient action only if its
\* out < remaining.min and no efficient survivable action has out <
\* remaining.min.
C23_ValidActionsFilter ==
    \A n \in NodeIds :
        LET R == getRemainingBelief(nodes[n])
            va == getValidActions(nodes[n])
            returned == {va[j] : j \in 1..Len(va)}
            catalog == {ActionKeys[k] : k \in 1..Len(ActionKeys)}
            mass(key) == ACTIONS_[key].out + ACTIONS_[key].back
            survivable == {key \in catalog : R.max > ACTIONS_[key].out}
            efficient == {key \in survivable : mass(key) * maxReasonableTrips >= R.max}
        IN /\ returned \subseteq survivable
           /\ efficient \subseteq returned
           /\ \A key \in returned \ efficient :
                 /\ ACTIONS_[key].out < R.min
                 /\ \A e \in efficient : ~(ACTIONS_[e].out < R.min)

\* C23 witness: the tree holds a node where an inefficient action is returned
\* and a node where a survivable inefficient action with out < remaining.min
\* is left out.
C23_Witness ==
    /\ \E n \in NodeIds :
          LET R == getRemainingBelief(nodes[n])
              va == getValidActions(nodes[n])
          IN \E j \in 1..Len(va) :
                (ACTIONS_[va[j]].out + ACTIONS_[va[j]].back) * maxReasonableTrips < R.max
    /\ \E n \in NodeIds :
          LET R == getRemainingBelief(nodes[n])
              va == getValidActions(nodes[n])
          IN \E k \in 1..Len(ActionKeys) :
                LET act == ACTIONS_[ActionKeys[k]] IN
                /\ R.max > act.out
                /\ act.out < R.min
                /\ (act.out + act.back) * maxReasonableTrips < R.max
                /\ \A j \in 1..Len(va) : va[j] # ActionKeys[k]

\* C24: a node, once created, keeps its total_belief, mass_used, depth, parent
\* and incoming action and observation; a filled child slot (action_key,
\* observation) is never replaced or removed; the rollout phase creates no
\* node and changes no node's belief.
C24_NodesImmutable ==
    [][ /\ Len(nodes') >= Len(nodes)
        /\ \A n \in NodeIds :
              /\ nodes'[n].totalBelief = nodes[n].totalBelief
              /\ nodes'[n].massUsed = nodes[n].massUsed
              /\ nodes'[n].depth = nodes[n].depth
              /\ nodes'[n].parent = nodes[n].parent
              /\ nodes'[n].incomingActionKey = nodes[n].incomingActionKey
              /\ nodes'[n].incomingObservation = nodes[n].incomingObservation
              /\ \A c \in 1..Len(nodes[n].children) :
                    LET slot == nodes[n].children[c] IN
                    /\ hasChild(nodes'[n], slot.key, slot.obs)
                    /\ getChild(nodes'[n], slot.key, slot.obs) = slot.id
        /\ pc \in {"presim", "simulate"} =>
              /\ Len(nodes') = Len(nodes)
              /\ \A n \in NodeIds :
                    /\ nodes'[n].totalBelief = nodes[n].totalBelief
                    /\ nodes'[n].children = nodes[n].children
      ]_vars

\* C24 witness: a rollout has run below a tree whose root already had a child
\* when a second one was stored.
C24_Witness ==
    /\ pc = "backprop"
    /\ trips > CurNode.depth
    /\ Len(Root.children) >= 2
    /\ Root.children[2].id = Len(nodes)
    /\ nodes[Root.children[1].id].visits >= 1

\* C25: belief soundness: the true_mass sampled by an iteration lies inside the
\* total_belief of every node on that iteration's path.
C25_BeliefSound ==
    InIteration =>
        \A k \in 1..Len(path) :
            /\ nodes[path[k]].totalBelief.min <= trueMass
            /\ trueMass <= nodes[path[k]].totalBelief.max

\* fresh < shrink < crit < collapsed
Severity(obs) ==
    CASE obs = "fresh" -> 0
      [] obs = "shrink" -> 1
      [] obs = "crit" -> 2
      [] obs = "collapsed" -> 3

\* C26: with the order fresh < shrink < crit < collapsed, the incoming
\* observation of every node whose parent is not the root is at least the
\* incoming observation of its parent.
C26_ObservationsWorsen ==
    \A n \in NodeIds :
        (nodes[n].parent # 0 /\ nodes[nodes[n].parent].parent # 0) =>
            Severity(nodes[n].incomingObservation)
                >= Severity(nodes[nodes[n].parent].incomingObservation)

\* C26 witness: a node two levels below the root whose observation is worse
\* than its parent's.
C26_Witness ==
    \E n \in NodeIds :
        /\ nodes[n].parent # 0 /\ nodes[nodes[n].parent].parent # 0
        /\ Severity(nodes[n].incomingObservation)
              > Severity(nodes[nodes[n].parent].incomingObservation)

\* C27: a node whose incoming_observation is collapsed never has children, and
\* an iteration that reaches such a node leaves the selection loop there.
C27_CollapsedIsLeaf ==
    /\ []( /\ \A n \in NodeIds :
                nodes[n].incomingObservation = "collapsed" => Len(nodes[n].children) = 0
           /\ pc = "select" => CurNode.incomingObservation # "collapsed" )
    /\ [][ (pc = "select" /\ node' # node
                /\ nodes'[node'].incomingObservation = "collapsed")
               => (pc' = "presim" /\ remaining' <= 0) ]_vars

\* C27 witness: an iteration arrives at a collapsed node that an earlier
\* iteration created.
C27_Witness ==
    /\ pc = "presim"
    /\ CurNode.incomingObservation = "collapsed"
    /\ CurNode.visits >= 1
    /\ Len(CurNode.children) = 0
    /\ ~isTerminal(CurNode)

\* C28: every trip count recorded as a key of a node's terminal_trips is at
\* most max_depth.  The rollout loop is capped by trips < CONFIG.maxDepth, but
\* trips starts at node.depth and the selection loop (algorithm.ts 40-124) has
\* no depth bound, so the statement depends on how deep the tree can grow; the
\* trees reachable within MaxIter iterations are at most MaxIter deep.
C28_TripsWithinMaxDepth ==
    /\ \A n \in NodeIds :
          \A t \in DOMAIN nodes[n].terminalTrips : t <= maxDepth
    /\ (pc \in {"simulate", "backprop"} /\ Len(path) - 1 <= maxDepth)
          => trips <= maxDepth

\* C28 boundary case: a success recorded with exactly max_depth trips.
C28_Boundary ==
    \E n \in NodeIds : maxDepth \in DOMAIN nodes[n].terminalTrips

====
